---- MODULE Spec2Model ----
(***************************************************************************)
(* ArticleRepository (src/backend/persistence.rs): a whole-file JSON store *)
(* of articles guarded by one RwLock.  The file is a sequence of tokens    *)
(* (the unit of length of the model: one token stands for one JSON lexeme  *)
(* or one character of a string), strings are sequences of characters.     *)
(***************************************************************************)
EXTENDS Integers, Sequences, FiniteSets, TLC

\* ---- bounds of the model ----
MaxContentLen == 1
MaxClock == 1
MaxCalls == 3
MaxConcurrentCalls == 2
WriteChunk == 16
MaxCallsAfterNew == 1

\* the threads that call into the repository
Procs == {"t1", "t2"}

\* ---- the lexemes of the persisted format ----
QUOTE == "\""
BSLASH == "\\"
LBRACE == "{"
RBRACE == "}"
COLON == ":"
COMMA == ","
KEY_DATA == "\"data\""
KEY_CREATED_AT == "\"created_at\""
KEY_CONTENT == "\"content\""
KEY_ID == "\"id\""

Digits == <<"0", "1", "2", "3", "4", "5", "6", "7", "8", "9">>
\* a text with a character that is escaped and one that is not
SampleText == <<QUOTE, "x", QUOTE, "x", QUOTE, "x">>

\* ArticleId(String): the ids the callers use
ArticleIds == {<<"a">>, <<"b">>}

\* the article_content arguments the callers pass: one of each length
Contents == { SubSeq(SampleText, 1, n) : n \in 0..MaxContentLen }

\* HashMap::new()
EmptyData == [k \in {} |-> 0]

\* HashMap::insert
Insert(data, k, v) == [x \in (DOMAIN data) \cup {k} |-> IF x = k THEN v ELSE data[x]]

\* a removal that clears the whole map
RemoveClears(data, k) == EmptyData

\* HashMap::remove
Remove(data, k) == [x \in (DOMAIN data) \ {k} |-> data[x]]

\* ---- serialization (serde_json::to_string / to_writer of FileScheme) ----
RECURSIVE Escape(_)
Escape(s) ==
  IF s = <<>> THEN <<>>
  ELSE (IF Head(s) \in {QUOTE, BSLASH} THEN <<BSLASH, Head(s)>> ELSE <<Head(s)>>)
       \o Escape(Tail(s))

SerString(s) == <<QUOTE>> \o Escape(s) \o <<QUOTE>>

\* DateTime<Local> is written as a quoted text
FormatTime(t) == <<QUOTE, Digits[t + 1], QUOTE>>

\* the fields of Article in declaration order
SerArticle(art) ==
  <<LBRACE, KEY_CREATED_AT, COLON>> \o FormatTime(art.created_at)
  \o <<COMMA, KEY_CONTENT, COLON>> \o SerString(art.content)
  \o <<COMMA, KEY_ID, COLON>> \o SerString(art.id)
  \o <<RBRACE>>

RECURSIVE SerEntries(_, _)
SerEntries(data, ord) ==
  IF ord = <<>> THEN <<>>
  ELSE SerString(Head(ord)) \o <<COLON>> \o SerArticle(data[Head(ord)])
       \o (IF Len(ord) > 1 THEN <<COMMA>> ELSE <<>>)
       \o SerEntries(data, Tail(ord))

\* the iteration orders a HashMap with these keys can have
Orders(S) ==
  { o \in [1..Cardinality(S) -> S] : \A i, j \in 1..Cardinality(S) : i # j => o[i] # o[j] }

ToJson(data, ord) ==
  <<LBRACE, KEY_DATA, COLON, LBRACE>> \o SerEntries(data, ord) \o <<RBRACE, RBRACE>>

\* ---- deserialization (serde_json::from_str::<FileScheme>) ----
Fail == [ok |-> FALSE]
At(s, i) == IF i >= 1 /\ i <= Len(s) THEN s[i] ELSE "EOF"

RECURSIVE ScanString(_, _, _)
ScanString(s, i, acc) ==
  IF i > Len(s) THEN Fail
  ELSE IF s[i] = QUOTE THEN [ok |-> TRUE, val |-> acc, next |-> i + 1]
  ELSE IF s[i] = BSLASH
       THEN IF At(s, i + 1) \in {QUOTE, BSLASH}
            THEN ScanString(s, i + 2, Append(acc, s[i + 1]))
            ELSE Fail
  ELSE ScanString(s, i + 1, Append(acc, s[i]))

ParseString(s, i) == IF At(s, i) = QUOTE THEN ScanString(s, i + 1, <<>>) ELSE Fail

IsDigit(d) == \E t \in 1..Len(Digits) : Digits[t] = d
DigitValue(d) == (CHOOSE t \in 1..Len(Digits) : Digits[t] = d) - 1

ParseTime(s, i) ==
  IF At(s, i) = QUOTE /\ IsDigit(At(s, i + 1)) /\ At(s, i + 2) = QUOTE
  THEN [ok |-> TRUE, val |-> DigitValue(s[i + 1]), next |-> i + 3]
  ELSE Fail

\* each field (t, c, d) is parsed once: it is bound as the element of a
\* singleton set
ParseArticle(s, i) ==
  IF ~(At(s, i) = LBRACE /\ At(s, i + 1) = KEY_CREATED_AT /\ At(s, i + 2) = COLON) THEN Fail
  ELSE CHOOSE res \in
    { IF ~t.ok THEN Fail
      ELSE IF ~(At(s, t.next) = COMMA /\ At(s, t.next + 1) = KEY_CONTENT
                /\ At(s, t.next + 2) = COLON) THEN Fail
      ELSE CHOOSE afterTime \in
        { IF ~c.ok THEN Fail
          ELSE IF ~(At(s, c.next) = COMMA /\ At(s, c.next + 1) = KEY_ID
                    /\ At(s, c.next + 2) = COLON) THEN Fail
          ELSE CHOOSE afterContent \in
            { IF ~d.ok THEN Fail
              ELSE IF At(s, d.next) # RBRACE THEN Fail
              ELSE [ok |-> TRUE,
                    val |-> [created_at |-> t.val, content |-> c.val, id |-> d.val],
                    next |-> d.next + 1]
              : d \in {ParseString(s, c.next + 3)} } : TRUE
          : c \in {ParseString(s, t.next + 3)} } : TRUE
      : t \in {ParseTime(s, i + 3)} } : TRUE

\* the key k and the value v of one entry are each parsed once: they are
\* bound as the element of a singleton set
RECURSIVE ParseEntries(_, _, _)
ParseEntries(s, i, acc) ==
  CHOOSE res \in
    { IF ~k.ok THEN Fail
      ELSE IF At(s, k.next) # COLON THEN Fail
      ELSE CHOOSE rest \in
        { IF ~v.ok THEN Fail
          ELSE IF At(s, v.next) = COMMA
               THEN ParseEntries(s, v.next + 1, Insert(acc, k.val, v.val))
          ELSE IF At(s, v.next) = RBRACE
               THEN [ok |-> TRUE, val |-> Insert(acc, k.val, v.val), next |-> v.next + 1]
          ELSE Fail
          : v \in {ParseArticle(s, k.next + 1)} } : TRUE
      : k \in {ParseString(s, i)} } : TRUE

ParseMap(s, i) ==
  IF At(s, i) # LBRACE THEN Fail
  ELSE IF At(s, i + 1) = RBRACE THEN [ok |-> TRUE, val |-> EmptyData, next |-> i + 2]
  ELSE ParseEntries(s, i + 1, EmptyData)

\* the whole input must be one document: anything after it is an error
FromStr(s) ==
  IF ~(At(s, 1) = LBRACE /\ At(s, 2) = KEY_DATA /\ At(s, 3) = COLON)
  THEN [ok |-> FALSE, data |-> EmptyData]
  ELSE CHOOSE res \in
    { IF ~m.ok THEN [ok |-> FALSE, data |-> EmptyData]
      ELSE IF At(s, m.next) = RBRACE /\ m.next = Len(s)
           THEN [ok |-> TRUE, data |-> m.val]
      ELSE [ok |-> FALSE, data |-> EmptyData]
      : m \in {ParseMap(s, 4)} } : TRUE

\* ---- the file ----
\* write(2) of bytes at offset pos of a file opened without O_TRUNC
WriteAt(f, pos, bytes) ==
  LET n == IF Len(f) > pos + Len(bytes) THEN Len(f) ELSE pos + Len(bytes)
  IN [i \in 1..n |-> IF i > pos /\ i <= pos + Len(bytes) THEN bytes[i - pos] ELSE f[i]]

\* File::set_len
SetLen(f, n) == IF n <= Len(f) THEN SubSeq(f, 1, n) ELSE f

\* ---- the state ----
VARIABLES
  file,      \* the bytes of the file at self.path
  now,       \* the latest time Local::now() returned
  rholders,  \* the calls holding self.lock in shared mode
  wholders,  \* the calls holding self.lock in exclusive mode
  pc,        \* the position of each call
  req,       \* the operation and arguments of each call
  a,         \* the local FileScheme.data of a mutating call
  json,      \* the serialized document a mutating call writes
  wpos,      \* the offset of the write handle of a mutating call
  old,       \* history: the file when the call got the write lock
  hist,      \* history: the last two returned calls, latest first
  calls,     \* history: the number of calls invoked
  lin,       \* history: the mutations applied in write-lock order
  inserted,  \* history: the ids set_entry was invoked with
  written,   \* history: the articles set_entry calls have inserted
  fexists,   \* whether a file exists at path
  npc,       \* where each call of new(path) stands
  absent     \* per call of new(path): it found no file at path

\* the state of the calls of new(path)
ctor == <<fexists, npc, absent>>

vars == <<file, now, rholders, wholders, pc, req, a, json, wpos, old, hist, calls, lin, inserted,
          written, fexists, npc, absent>>

\* the calls of new(path)
Ctors == {"n1", "n2"}

NoReq == [op |-> "none", id |-> <<>>, content |-> <<>>]
NoArticle == [created_at |-> 0, content |-> <<>>, id |-> <<>>]

\* an initial document without the wrapper key
DefaultFileBare == <<LBRACE, RBRACE>>

\* FileScheme::empty() as written by create_default_file_if_absent
DefaultFile == ToJson(EmptyData, <<>>)

Returned(r, kind, found, art, f) ==
  [op |-> r.op, id |-> r.id, content |-> r.content,
   kind |-> kind, found |-> found, article |-> art, post |-> f]

Init ==
  /\ file = DefaultFile
  /\ now = 0
  /\ rholders = {}
  /\ wholders = {}
  /\ pc = [p \in Procs |-> "idle"]
  /\ req = [p \in Procs |-> NoReq]
  /\ a = [p \in Procs |-> EmptyData]
  /\ json = [p \in Procs |-> <<>>]
  /\ wpos = [p \in Procs |-> 0]
  /\ old = [p \in Procs |-> <<>>]
  /\ hist = <<Returned([op |-> "new", id |-> <<>>, content |-> <<>>], "Ok", FALSE, NoArticle, DefaultFile)>>
  /\ calls = 0
  /\ lin = EmptyData
  /\ inserted = {}
  /\ written = {}
  /\ fexists = TRUE
  /\ npc = [c \in Ctors |-> IF c = "n1" THEN "done" ELSE "start"]
  /\ absent = [c \in Ctors |-> c = "n1"]

\* the call of p returns to its caller: its locals are dropped
Complete(p, kind, found, art, f) ==
  /\ pc' = [pc EXCEPT ![p] = "idle"]
  /\ req' = [req EXCEPT ![p] = NoReq]
  /\ a' = [a EXCEPT ![p] = EmptyData]
  /\ json' = [json EXCEPT ![p] = <<>>]
  /\ wpos' = [wpos EXCEPT ![p] = 0]
  /\ old' = [old EXCEPT ![p] = <<>>]
  /\ hist' = <<Returned(req[p], kind, found, art, f), hist[1]>>

Invoke(p, op, id, content) ==
  /\ pc[p] = "idle"
  /\ calls' = calls + 1
  /\ req' = [req EXCEPT ![p] = [op |-> op, id |-> id, content |-> content]]
  /\ pc' = [pc EXCEPT ![p] = "get_read_handle"]
  /\ inserted' = IF op = "set_entry" THEN inserted \cup {id} ELSE inserted
  /\ UNCHANGED <<file, now, rholders, wholders, a, json, wpos, old, hist, lin, written, ctor>>

CallSetEntry(p, id, content) == Invoke(p, "set_entry", id, content)
CallReadSnapshot(p, id) == Invoke(p, "read_snapshot", id, <<>>)
CallExists(p, id) == Invoke(p, "exists", id, <<>>)
CallRemove(p, id) == Invoke(p, "remove", id, <<>>)

\* a read lock that does not wait for the writer
CanReadDuringWrite == TRUE

\* RwLock::read succeeds when no call holds the lock exclusively
CanRead == wholders = {}

\* a write lock that does not wait for the readers
CanWriteIgnoringReaders == wholders = {}

\* RwLock::write succeeds when no call holds the lock at all
CanWrite == wholders = {} /\ rholders = {}

GetReadHandle(p) ==
  /\ pc[p] = "get_read_handle"
  /\ CanRead
  /\ rholders' = rholders \cup {p}
  /\ pc' = [pc EXCEPT ![p] = "parse"]
  /\ UNCHANGED <<file, now, wholders, req, a, json, wpos, old, hist, calls, lin, inserted, written, ctor>>

\* parse_file_as_json: read the file to its end, decode it, drop the read guard
ParseFileAsJson(f) == FromStr(f)

\* a parse_file_as_json whose read guard outlives it
KeepReadGuard(p) == rholders

\* the read guard _lock goes out of scope when parse_file_as_json returns
DropReadGuard(p) == rholders \ {p}

ReadSnapshot(p) ==
  /\ pc[p] = "parse"
  /\ req[p].op = "read_snapshot"
  /\ rholders' = DropReadGuard(p)
  /\ \E r \in {ParseFileAsJson(file)} :
       IF ~r.ok THEN Complete(p, "Decode", FALSE, NoArticle, file)
       ELSE IF req[p].id \in DOMAIN r.data
            THEN Complete(p, "Ok", TRUE, r.data[req[p].id], file)
       ELSE Complete(p, "NotFound", FALSE, NoArticle, file)
  /\ UNCHANGED <<file, now, wholders, calls, lin, inserted, written, ctor>>

Exists(p) ==
  /\ pc[p] = "parse"
  /\ req[p].op = "exists"
  /\ rholders' = DropReadGuard(p)
  /\ \E r \in {ParseFileAsJson(file)} :
       IF ~r.ok THEN Complete(p, "Decode", FALSE, NoArticle, file)
       ELSE Complete(p, "Ok", req[p].id \in DOMAIN r.data, NoArticle, file)
  /\ UNCHANGED <<file, now, wholders, calls, lin, inserted, written, ctor>>

\* the first statement of set_entry and of remove
MutatorParse(p) ==
  /\ pc[p] = "parse"
  /\ req[p].op \in {"set_entry", "remove"}
  /\ rholders' = DropReadGuard(p)
  /\ \E r \in {ParseFileAsJson(file)} :
       IF ~r.ok
       THEN Complete(p, "Decode", FALSE, NoArticle, file)
       ELSE /\ a' = [a EXCEPT ![p] = r.data]
            /\ pc' = [pc EXCEPT ![p] = "get_write_handle"]
            /\ UNCHANGED <<req, json, wpos, old, hist>>
  /\ UNCHANGED <<file, now, wholders, calls, lin, inserted, written, ctor>>

\* get_write_handle: the file is opened at offset 0, the write lock taken
GetWriteHandle(p) ==
  /\ pc[p] = "get_write_handle"
  /\ CanWrite
  /\ wholders' = wholders \cup {p}
  /\ wpos' = [wpos EXCEPT ![p] = 0]
  /\ old' = [old EXCEPT ![p] = file]
  /\ pc' = [pc EXCEPT ![p] = "write"]

\* an Article whose id field is filled from the wrong argument
NewArticleIdFromContent(r, t) == [created_at |-> t, content |-> r.content, id |-> r.content]

NewArticle(r, t) == [created_at |-> t, content |-> r.content, id |-> r.id]

\* set_entry, from get_write_handle to the insertion: Local::now() returns
\* the time of the latest reading or a later one
SetEntryInsert(p) ==
  /\ req[p].op = "set_entry"
  /\ GetWriteHandle(p)
  /\ \E t \in now..MaxClock :
       LET d == Insert(a[p], req[p].id, NewArticle(req[p], t)) IN
         /\ now' = t
         /\ a' = [a EXCEPT ![p] = d]
         /\ \E ord \in Orders(DOMAIN d) : json' = [json EXCEPT ![p] = ToJson(d, ord)]
         /\ lin' = Insert(lin, req[p].id, NewArticle(req[p], t))
         /\ written' = written \cup {NewArticle(req[p], t)}
  /\ UNCHANGED <<file, rholders, req, hist, calls, inserted, ctor>>

\* serde_json::to_writer(file, &a): unbuffered writes, one after another,
\* each of at most WriteChunk tokens
SetEntryWrite(p) ==
  /\ pc[p] = "write"
  /\ req[p].op = "set_entry"
  /\ LET rest == Len(json[p]) - wpos[p]
         n == IF rest > WriteChunk THEN WriteChunk ELSE rest IN
       /\ file' = WriteAt(file, wpos[p], SubSeq(json[p], wpos[p] + 1, wpos[p] + n))
       /\ wpos' = [wpos EXCEPT ![p] = wpos[p] + n]
       /\ pc' = [pc EXCEPT ![p] = IF wpos[p] + n = Len(json[p]) THEN "return" ELSE "write"]
  /\ UNCHANGED <<now, rholders, wholders, req, a, json, old, hist, calls, lin, inserted, written, ctor>>

\* remove, from get_write_handle to serde_json::to_string
RemoveEntry(p) ==
  /\ req[p].op = "remove"
  /\ GetWriteHandle(p)
  /\ LET d == Remove(a[p], req[p].id) IN
       /\ a' = [a EXCEPT ![p] = d]
       /\ \E ord \in Orders(DOMAIN d) : json' = [json EXCEPT ![p] = ToJson(d, ord)]
  /\ lin' = Remove(lin, req[p].id)
  /\ UNCHANGED <<file, now, rholders, req, hist, calls, inserted, written, ctor>>

\* write!(&mut BufWriter::new(&file), "{json}"): one buffered write
RemoveWrite(p) ==
  /\ pc[p] = "write"
  /\ req[p].op = "remove"
  /\ file' = WriteAt(file, wpos[p], json[p])
  /\ wpos' = [wpos EXCEPT ![p] = wpos[p] + Len(json[p])]
  /\ pc' = [pc EXCEPT ![p] = "set_len"]
  /\ UNCHANGED <<now, rholders, wholders, req, a, json, old, hist, calls, lin, inserted, written, ctor>>

\* a removal that forgets to truncate
TruncateNone(f, n) == f

\* file.set_len(json.len() as u64)
Truncate(f, n) == SetLen(f, n)

RemoveSetLen(p) ==
  /\ pc[p] = "set_len"
  /\ file' = Truncate(file, Len(json[p]))
  /\ pc' = [pc EXCEPT ![p] = "return"]
  /\ UNCHANGED <<now, rholders, wholders, req, a, json, wpos, old, hist, calls, lin, inserted, written, ctor>>

\* Ok(()) of set_entry and remove: the write guard is dropped
MutatorReturn(p) ==
  /\ pc[p] = "return"
  /\ wholders' = wholders \ {p}
  /\ Complete(p, "Ok", FALSE, NoArticle, file)
  /\ UNCHANGED <<file, now, rholders, calls, lin, inserted, written, ctor>>

Call(p) ==
  \E id \in ArticleIds :
    \/ \E content \in Contents : CallSetEntry(p, id, content)
    \/ CallReadSnapshot(p, id)
    \/ CallExists(p, id)
    \/ CallRemove(p, id)

\* the steps of the call of thread p
ProcStep(p) ==
    \/ GetReadHandle(p)
    \/ ReadSnapshot(p)
    \/ Exists(p)
    \/ MutatorParse(p)
    \/ SetEntryInsert(p)
    \/ SetEntryWrite(p)
    \/ RemoveEntry(p)
    \/ RemoveWrite(p)
    \/ RemoveSetLen(p)
    \/ MutatorReturn(p)

Step == \E p \in Procs : ProcStep(p)

Quiescent == \A q \in Procs : pc[q] = "idle"

\* calls from concurrent threads
Next == (calls < MaxConcurrentCalls /\ \E p \in Procs : Call(p)) \/ Step
Spec == Init /\ [][Next]_vars

\* the calls on one article
CallOn(p, id) ==
  \/ \E content \in Contents : CallSetEntry(p, id, content)
  \/ CallReadSnapshot(p, id)
  \/ CallExists(p, id)
  \/ CallRemove(p, id)

\* concurrent calls that all address one article
NextOne == (calls < MaxConcurrentCalls /\ \E p \in Procs : CallOn(p, <<"a">>)) \/ Step

\* each thread is scheduled again and again while it can step
SpecFair == Init /\ [][NextOne]_vars /\ \A p \in Procs : WF_vars(ProcStep(p))

\* calls one after another, from one thread
NextSeq == (Quiescent /\ calls < MaxCalls /\ Call("t1")) \/ Step
SpecSeq == Init /\ [][NextSeq]_vars

\* ---- construction: new(path) and create_default_file_if_absent ----

\* the variables of the four operations, apart from file and hist
opvars == <<now, rholders, wholders, pc, req, a, json, wpos, old, calls, lin, inserted, written>>

\* no operation has been called yet
NoCalls ==
  /\ now = 0
  /\ rholders = {}
  /\ wholders = {}
  /\ pc = [p \in Procs |-> "idle"]
  /\ req = [p \in Procs |-> NoReq]
  /\ a = [p \in Procs |-> EmptyData]
  /\ json = [p \in Procs |-> <<>>]
  /\ wpos = [p \in Procs |-> 0]
  /\ old = [p \in Procs |-> <<>>]
  /\ calls = 0

\* the documents an earlier run may have left at path: the empty one, or
\* one article inserted at time 0
InitialDocs ==
  {EmptyData} \cup
  { Insert(EmptyData, id, [created_at |-> 0, content |-> c, id |-> id]) :
      id \in ArticleIds, c \in Contents }

\* the file holds document d, written by the set_entry calls of an earlier run
Holds(d) ==
  /\ file = ToJson(d, CHOOSE ord \in Orders(DOMAIN d) : TRUE)
  /\ lin = d
  /\ inserted = DOMAIN d
  /\ written = {d[k] : k \in DOMAIN d}

NewRecord(f) == Returned([op |-> "new", id |-> <<>>, content |-> <<>>], "Ok", FALSE, NoArticle, f)

\* new(path) returns Self
PushNew(f) == IF hist = <<>> THEN <<NewRecord(f)>> ELSE <<NewRecord(f), hist[1]>>

\* a new(path) that initialises the file whether it exists or not
IsAbsentAlways == TRUE

\* !path.exists()
IsAbsent == ~fexists

\* new(path) up to the test of create_default_file_if_absent: when the file
\* exists, nothing is written and the instance is returned
NewCheck(c) ==
  /\ npc[c] = "start"
  /\ absent' = [absent EXCEPT ![c] = IsAbsent]
  /\ IF IsAbsent
       THEN npc' = [npc EXCEPT ![c] = "open"] /\ hist' = hist
       ELSE npc' = [npc EXCEPT ![c] = "done"] /\ hist' = PushNew(file)
  /\ UNCHANGED <<file, fexists, opvars>>

\* File::options().write(true).read(true).create(true).open(path): creates
\* an empty file when there is none, keeps the content of an existing one
NewOpen(c) ==
  /\ npc[c] = "open"
  /\ fexists' = TRUE
  /\ file' = IF fexists THEN file ELSE <<>>
  /\ npc' = [npc EXCEPT ![c] = "write"]
  /\ UNCHANGED <<absent, hist, opvars>>

\* write!(file, "{default_json}") at offset 0, then new returns Self
NewWrite(c) ==
  /\ npc[c] = "write"
  /\ file' = WriteAt(file, 0, DefaultFile)
  /\ npc' = [npc EXCEPT ![c] = "done"]
  /\ hist' = PushNew(file')
  /\ UNCHANGED <<fexists, absent, opvars>>

\* some new(path) has returned an instance
Constructed == \E c \in Ctors : npc[c] = "done"

\* before any new(path): no file at path, or the file of an earlier run
InitNew ==
  /\ NoCalls
  /\ \/ fexists = TRUE /\ \E d \in InitialDocs : Holds(d)
     \/ fexists = FALSE /\ file = <<>> /\ lin = EmptyData /\ inserted = {} /\ written = {}
  /\ hist = <<>>
  /\ npc = [c \in Ctors |-> "start"]
  /\ absent = [c \in Ctors |-> FALSE]

\* calls of new(path) from two threads, and the operations one thread calls
\* through the instance that was returned first
NextNew ==
  \/ \E c \in Ctors : NewCheck(c) \/ NewOpen(c) \/ NewWrite(c)
  \/ (Constructed /\ calls < MaxCallsAfterNew /\ Call("t1"))
  \/ Step
SpecNew == InitNew /\ [][NextNew]_vars

\* one new(path) has returned on the file of an earlier run
InitWarm ==
  /\ NoCalls
  /\ fexists = TRUE
  /\ \E d \in InitialDocs : Holds(d)
  /\ hist = <<NewRecord(file)>>
  /\ npc = [c \in Ctors |-> IF c = "n1" THEN "done" ELSE "start"]
  /\ absent = [c \in Ctors |-> FALSE]

\* concurrent calls on one article, on the file of an earlier run
SpecWarm == InitWarm /\ [][NextOne]_vars

TypeOK ==
  /\ now \in 0..MaxClock
  /\ rholders \subseteq Procs
  /\ wholders \subseteq Procs
  /\ calls \in 0..(MaxCalls + MaxConcurrentCalls)

\* ---- the properties ----
Latest == hist[1]
Previous == hist[2]

\* what exists(id) computes from the bytes now on disk
ExistsNow(id) ==
  LET r == ParseFileAsJson(file) IN r.ok /\ id \in DOMAIN r.data

\* C1: a read_snapshot(id) that directly follows a successful
\* set_entry(id, content) returns an Article with that content and that id.
RoundTrip ==
  (Len(hist) = 2 /\ Latest.op = "read_snapshot" /\ Previous.op = "set_entry"
     /\ Previous.kind = "Ok" /\ Latest.id = Previous.id)
  => /\ Latest.kind = "Ok"
     /\ Latest.article.content = Previous.content
     /\ Latest.article.id = Previous.id

\* C2: when two set_entry calls with distinct ids are the only calls and both
\* have returned, both returned success and both ids exist.
NoLostUpdates ==
  (Quiescent /\ calls = 2 /\ Len(hist) = 2
     /\ Latest.op = "set_entry" /\ Previous.op = "set_entry" /\ Latest.id # Previous.id)
  => /\ Latest.kind = "Ok"
     /\ Previous.kind = "Ok"
     /\ ExistsNow(Latest.id)
     /\ ExistsNow(Previous.id)

\* C3: when set_entry has written a document shorter than the content that
\* was on disk, the file is exactly that document and decodes.
TruncationOnSetEntry ==
  \A p \in Procs :
    (pc[p] = "return" /\ req[p].op = "set_entry" /\ Len(json[p]) < Len(old[p]))
    => /\ file = json[p]
       /\ ParseFileAsJson(file).ok

\* C4: when remove is about to return, the length of the file is the length
\* of the document it wrote, and the file decodes to that document.
TruncationOnRemove ==
  \A p \in Procs :
    (pc[p] = "return" /\ req[p].op = "remove")
    => /\ Len(file) = Len(json[p])
       /\ file = json[p]
       /\ ParseFileAsJson(file).ok
       /\ ParseFileAsJson(file).data = a[p]

\* C4 witness: a remove has shrunk the file
RemoveShrankFile ==
  \E p \in Procs :
    pc[p] = "return" /\ req[p].op = "remove" /\ Len(json[p]) < Len(old[p])

\* C5: once all calls have returned, a document that decodes is the result
\* of the mutations applied in the order they acquired the write lock (no
\* returned mutation is undone by a concurrent one).
Linearization ==
  (Quiescent /\ ParseFileAsJson(file).ok) => ParseFileAsJson(file).data = lin

\* C6: at most one call holds the lock exclusively and none holds it shared
\* meanwhile; a call decodes only while it holds the lock in shared mode and
\* writes or truncates only while it holds it in exclusive mode, and the
\* bytes of the file change only then.
LockHolders ==
  /\ Cardinality(wholders) <= 1
  /\ wholders # {} => rholders = {}
  /\ \A p \in Procs : pc[p] = "parse" => p \in rholders
  /\ \A p \in Procs : pc[p] \in {"write", "set_len", "return"} => p \in wholders

LockExclusion ==
  /\ []LockHolders
  /\ [][file' # file => (wholders # {} /\ rholders = {} /\ wholders' = wholders)]_vars

\* C6 witness: a call waits for the lock while another is in the middle of
\* its write
WriterBlocksOthers ==
  \E p \in wholders, q \in Procs :
    /\ pc[p] = "write" /\ wpos[p] > 0
    /\ pc[q] \in {"get_read_handle", "get_write_handle"}

\* C7: whenever no call holds the write lock, the file is one valid document.
DocumentValid == wholders = {} => ParseFileAsJson(file).ok

\* C8: an exists(id) that directly follows a successful set_entry(id, c)
\* returns Ok(true), one that directly follows a successful remove(id)
\* returns Ok(false).
ExistenceConsistency ==
  (Len(hist) = 2 /\ Latest.op = "exists" /\ Previous.kind = "Ok" /\ Latest.id = Previous.id)
  => /\ Previous.op = "set_entry" => (Latest.kind = "Ok" /\ Latest.found)
     /\ Previous.op = "remove" => (Latest.kind = "Ok" /\ ~Latest.found)

\* C9: a remove(id) on a document without id succeeds and leaves the mapping
\* the file decodes to unchanged; a remove(id) that directly follows a
\* remove(id) has the same result and leaves the store as the first left it.
IdempotentDelete ==
  (Len(hist) = 2 /\ Latest.op = "remove")
  => LET before == ParseFileAsJson(Previous.post)
         after == ParseFileAsJson(Latest.post)
     IN /\ (before.ok /\ Latest.id \notin DOMAIN before.data)
             => (Latest.kind = "Ok" /\ after.ok /\ after.data = before.data)
        /\ (Previous.op = "remove" /\ Previous.id = Latest.id)
             => (Latest.kind = Previous.kind /\ after = before)

\* C9 witness: a second remove(id) in a row, on a store that holds another id
RemovedTwice ==
  /\ Len(hist) = 2
  /\ Latest.op = "remove" /\ Previous.op = "remove" /\ Previous.id = Latest.id
  /\ Latest.kind = "Ok"
  /\ DOMAIN ParseFileAsJson(Latest.post).data # {}

\* C10: a read_snapshot(id) for an id that set_entry was never called with
\* fails with the not-found kind.
NotFoundSemantics ==
  (Latest.op = "read_snapshot" /\ Latest.id \notin inserted) => Latest.kind = "NotFound"

\* C11: a read_snapshot(id) that directly follows two successful set_entry
\* calls on id returns the content of the second one and the time the second
\* one read from the clock (now, as no later call has read the clock).
OverwriteSemantics ==
  [][(/\ Len(hist) = 2
      /\ Latest.op = "set_entry" /\ Latest.kind = "Ok"
      /\ Previous.op = "set_entry" /\ Previous.kind = "Ok"
      /\ Latest.id = Previous.id
      /\ hist' # hist
      /\ hist'[1].op = "read_snapshot" /\ hist'[1].id = Latest.id)
     => (/\ hist'[1].kind = "Ok"
         /\ hist'[1].article.content = Latest.content
         /\ hist'[1].article.created_at = now)]_vars

\* the other calls of new(path) have not started or have returned
NoOtherNew(c) == \A c2 \in Ctors \ {c} : npc[c2] \in {"start", "done"}

\* C12: a new(path) that starts on an existing file while no other call is in
\* progress returns in that step and leaves the existence and the content of
\* the file as they were.
ConstructionIdempotence ==
  [][\A c \in Ctors :
       (npc[c] = "start" /\ npc'[c] # "start" /\ fexists /\ Quiescent /\ NoOtherNew(c))
       => (npc'[c] = "done" /\ fexists' /\ file' = file)]_vars

\* C12 witness: a new(path) has just returned on a file that holds an article
ConstructedOnExisting ==
  /\ hist # <<>>
  /\ Latest.op = "new"
  /\ \E c \in Ctors : npc[c] = "done" /\ ~absent[c]
  /\ LET r == ParseFileAsJson(file) IN r.ok /\ DOMAIN r.data # {}

\* c is the only new(path) so far; it found no file and has returned
OnlyConstruction(c) ==
  /\ npc[c] = "done"
  /\ absent[c]
  /\ \A c2 \in Ctors \ {c} : npc[c2] = "start"

\* C13: once the only new(path) has returned for an absent path, the file
\* exists; before the first call it is the empty document, and the first call
\* returns Ok(false) from exists, not-found from read_snapshot and Ok from
\* set_entry and remove.
ConstructionOnAbsentPath ==
  \A c \in Ctors :
    OnlyConstruction(c) =>
      /\ fexists
      /\ calls = 0 =>
           /\ file = ToJson(EmptyData, <<>>)
           /\ LET r == ParseFileAsJson(file) IN r.ok /\ r.data = EmptyData
      /\ (calls = 1 /\ Quiescent) =>
           /\ Latest.op = "exists" => (Latest.kind = "Ok" /\ ~Latest.found)
           /\ Latest.op = "read_snapshot" => Latest.kind = "NotFound"
           /\ Latest.op \in {"set_entry", "remove"} => Latest.kind = "Ok"

\* C13 witness: the first call after the only construction was a set_entry
FirstSetEntryAfterNew ==
  /\ \E c \in Ctors : OnlyConstruction(c)
  /\ calls = 1 /\ Quiescent
  /\ Latest.op = "set_entry" /\ Latest.kind = "Ok"
  /\ \E id \in ArticleIds : ExistsNow(id)

\* C17: a new(path) writes the initial document over a file that is no longer
\* empty only when another new(path) also found the path absent; and when the
\* file held articles at that moment, afterwards it does not decode or the
\* articles are gone.
ConstructionRace ==
  [][\A c \in Ctors :
       (npc[c] = "write" /\ npc'[c] = "done" /\ file # <<>>)
       => /\ \E c2 \in Ctors \ {c} : absent[c2] /\ npc[c2] \in {"write", "done"}
          /\ LET r == ParseFileAsJson(file)
                 r2 == ParseFileAsJson(file') IN
               (r.ok /\ DOMAIN r.data # {})
               => (~r2.ok \/ \A k \in DOMAIN r.data : k \notin DOMAIN r2.data)]_vars

\* C17 witness: both calls found the path absent, a set_entry returned through
\* the first instance, then the second call wrote the initial document
SecondNewClobbered ==
  /\ \A c \in Ctors : npc[c] = "done" /\ absent[c]
  /\ Len(hist) = 2
  /\ Latest.op = "new"
  /\ Previous.op = "set_entry" /\ Previous.kind = "Ok"
  /\ ParseFileAsJson(Previous.post).ok
  /\ ~ParseFileAsJson(file).ok

\* the write lock is held by p: from get_write_handle to the return
InCriticalSection(p) == pc[p] \in {"write", "set_len", "return"}

\* C14: the document a mutating call writes back is the one that was on disk
\* when the call took the write lock, with the call's own change applied.
SingleCriticalSection ==
  \A p \in Procs :
    InCriticalSection(p) =>
      LET r == ParseFileAsJson(old[p]) IN
        /\ r.ok
        /\ a[p] = IF req[p].op = "set_entry"
                    THEN Insert(r.data, req[p].id, a[p][req[p].id])
                    ELSE Remove(r.data, req[p].id)

\* the call of p waits for the lock
Blocked(p) ==
  \/ pc[p] = "get_read_handle" /\ ~CanRead
  \/ pc[p] = "get_write_handle" /\ ~CanWrite

\* C15: a call that requests the write lock does not hold the read lock; when
\* calls are pending, one of them is not waiting for the lock; and under fair
\* scheduling every call that was invoked returns.
DeadlockFreedom ==
  /\ [](\A p \in Procs : pc[p] = "get_write_handle" => p \notin rholders)
  /\ []((\E p \in Procs : pc[p] # "idle")
          => \E p \in Procs : pc[p] # "idle" /\ ~Blocked(p))
  /\ \A p \in Procs : (pc[p] # "idle") ~> (pc[p] = "idle")

\* C15 witness: a mutating call waits for the write lock behind another call
WaitsForWriteLock ==
  \E p \in Procs : pc[p] = "get_write_handle" /\ Blocked(p)

\* C16: a call that reads a file that does not decode returns the decoding
\* error in that step, holding no lock and leaving the file as it is; and a
\* call changes the file only if the file decoded when the call took the write
\* lock, so that a file that does not decode is never written again.
FailureIsFinal ==
  [][\A p \in Procs :
       /\ (pc[p] = "parse" /\ pc'[p] # "parse" /\ ~ParseFileAsJson(file).ok)
          => /\ pc'[p] = "idle"
             /\ hist'[1].kind = "Decode"
             /\ file' = file
             /\ p \notin rholders' \cup wholders'
       /\ (p \in wholders /\ file' # file) => ParseFileAsJson(old[p]).ok]_vars

\* every key of the mapping holds an Article whose id is the key
Mirrored(data) == \A k \in DOMAIN data : data[k].id = k

\* C18: the id field of every Article equals its key, in the document a call
\* has decoded or modified, in the document a call writes, in the file
\* whenever no call is writing it, and in the Article read_snapshot returns.
KeyIdMirror ==
  /\ \A p \in Procs : Mirrored(a[p])
  /\ \A p \in Procs :
       json[p] # <<>> =>
         LET w == ParseFileAsJson(json[p]) IN w.ok /\ Mirrored(w.data)
  /\ wholders = {} =>
       LET r == ParseFileAsJson(file) IN r.ok => Mirrored(r.data)
  /\ (Latest.op = "read_snapshot" /\ Latest.kind = "Ok") => Latest.article.id = Latest.id

\* C18 witness: two set_entry calls have returned and the file holds both articles
TwoKeysStored ==
  /\ wholders = {}
  /\ LET r == ParseFileAsJson(file) IN r.ok /\ DOMAIN r.data = ArticleIds

\* C19: of two calls made one after the other, a read_snapshot or exists
\* leaves the file as the call before left it, and a set_entry(id, c) or
\* remove(id) on a document that decodes keeps every other id j: present
\* after with the same Article if it was present before, absent otherwise.
FrameOfMutation ==
  Len(hist) = 2 =>
    LET before == ParseFileAsJson(Previous.post)
        after == ParseFileAsJson(Latest.post) IN
      /\ Latest.op \in {"read_snapshot", "exists"} => Latest.post = Previous.post
      /\ (Latest.op \in {"set_entry", "remove"} /\ Latest.kind = "Ok" /\ before.ok) =>
           \A j \in ArticleIds \ {Latest.id} :
             IF j \in DOMAIN before.data
             THEN after.ok /\ j \in DOMAIN after.data /\ after.data[j] = before.data[j]
             ELSE after.ok => j \notin DOMAIN after.data

\* C20: the Article a successful read_snapshot(id) returns is, in id, content
\* and created_at, the Article one set_entry(id, .) call has inserted.
NoFabricatedReads ==
  (Latest.op = "read_snapshot" /\ Latest.kind = "Ok") =>
    /\ Latest.article.id = Latest.id
    /\ Latest.article \in written

\* C20 witness: a read_snapshot(id) returned an Article after two set_entry
\* calls had inserted different Articles for id
ReadAfterOverwrite ==
  /\ Latest.op = "read_snapshot" /\ Latest.kind = "Ok"
  /\ Cardinality({w \in written : w.id = Latest.id}) >= 2

====
